---------------------------- MODULE Spec2Model ----------------------------
(***************************************************************************)
(* Model of the 'microsaccade bias colour vs. duration' experiment:        *)
(*   - trial.py    generate_trial_characteristics, do_while_showing,       *)
(*                 single_trial                                            *)
(*   - response.py check_quit, get_colour_response, get_duration_response  *)
(*   - block.py    create_trial_list                                       *)
(* Times are integers in milliseconds (the code passes seconds, ms/1000).  *)
(* Specifications:                                                         *)
(*   Spec       one call of single_trial, or one direct call of a response *)
(*              evaluator (as practice.py calls them)                      *)
(*   SpecBlock  one call of create_trial_list                              *)
(***************************************************************************)
EXTENDS Integers, Sequences, FiniteSets, TLC

(***************************************************************************)
(* Bounds of the model.                                                    *)
(***************************************************************************)
\* size of the hue palette settings["colours"] used by the trial model
NColours == 2
\* a render callback that finishes within every phase budget (ms)
FastRender == 5
\* a render callback that overruns the short phases (ms)
SlowRender == 300
\* create_trial_list is called with n_trials in 0..MaxTrials
MaxTrials == 16
\* polling iterations a response loop of an evaluator may take
MaxPolls == 2
\* time of a premature click (ms)
PrematureClick == 120

(***************************************************************************)
(* Program constants.                                                      *)
(***************************************************************************)
ShortMin == 200
ShortMax == 800
LongMin == 1200
LongMax == 1800
ITIMin == 500
ITIMax == 800
InitialDuration == 0
FixationDuration == 750
CueDuration == 250
PreResponseDuration == 1000
FeedbackDuration == 250
\* number of required positional parameters of the two evaluators, and the
\* number of positional arguments single_trial passes to each
ColourResponseParams == 10
ColourResponseArgs == 9
DurationResponseParams == 9
DurationResponseArgs == 8
LastPhase == 7

None == "None"
Sink == "Eyelinker"

(***************************************************************************)
(* trial.py: generate_trial_characteristics.  The random draws are         *)
(* parameters: short, long (the two randint of duration_dict), sample (the *)
(* two colours of random.sample, distinct) and iti.                        *)
(***************************************************************************)
\* the same side for both items
Other_Same(position) == position

Other(position) == IF position = "right" THEN "left" ELSE "right"

OtherItem(target_item) == IF target_item = 1 THEN 2 ELSE 1

\* the first key of duration_dict when the pop of line 33 is left out
OtherCat_NoPop(cat) == "short"

\* line 33: the key left in duration_dict once the target's is popped
OtherCat(cat) == IF cat = "short" THEN "long" ELSE "short"

\* the two draws under each other's key
duration_dict_Swapped(short, long) ==
    [c \in {"short", "long"} |-> IF c = "short" THEN long ELSE short]

duration_dict(short, long) == [c \in {"short", "long"} |-> IF c = "short" THEN short ELSE long]

\* an else branch in place of the elif of line 59
ItemPositionsAssigned_Else(target_item) == TRUE

\* lines 54-63: item_positions is assigned for target_item 1 and 2 only
ItemPositionsAssigned(target_item) == target_item \in {1, 2}

generate_trial_characteristics(conditions, short, long, sample, iti) ==
    LET target_position     == conditions[1]
        target_duration_cat == conditions[2]
        target_item         == conditions[3]
    IN  IF target_duration_cat \notin {"short", "long"}
        THEN [exc |-> "KeyError"]
        ELSE
        LET dd              == duration_dict(short, long)
            target_duration == dd[target_duration_cat]
            rest_cat        == OtherCat(target_duration_cat)
            rest            == dd[rest_cat]
        IN  IF target_position \notin {"left", "right"}
            THEN [exc |-> "Exception"]
            ELSE IF ~ItemPositionsAssigned(target_item)
            THEN [exc |-> "UnboundLocalError"]
            ELSE
            [ exc                 |-> "none",
              ITI                 |-> iti,
              stimuli_colours     |-> sample,
              positions           |-> IF target_item = 1
                                      THEN <<target_position, Other(target_position)>>
                                      ELSE <<Other(target_position), target_position>>,
              item_orders         |-> IF target_position = "left"
                                      THEN <<target_item, OtherItem(target_item)>>
                                      ELSE <<OtherItem(target_item), target_item>>,
              target_number       |-> target_item,
              target_colour       |-> IF target_position = "left" THEN sample[1] ELSE sample[2],
              distractor_colour   |-> IF target_position = "left" THEN sample[2] ELSE sample[1],
              target_position     |-> target_position,
              target_duration     |-> target_duration,
              target_duration_cat |-> target_duration_cat,
              durations           |-> IF target_position = "left"
                                      THEN <<target_duration, rest>>
                                      ELSE <<rest, target_duration>>,
              duration_cats       |-> IF target_position = "left"
                                      THEN <<target_duration_cat, rest_cat>>
                                      ELSE <<rest_cat, target_duration_cat>> ]

(***************************************************************************)
(* Frames drawn to the back buffer: <<kind, colour or number, position>>.  *)
(***************************************************************************)
Blank == <<"blank", 0, "none">>

draw_fixation_dot == <<"fixation", 0, "none">>

create_stimuli_frame(colour, position) == <<"stimulus", colour, position>>

create_cue_frame(target_item) == <<"cue", target_item, "none">>

\* the callback of screens[0], lambda: 0 / 0
DivisionByZero == <<"ZeroDivisionError", 0, "none">>

(***************************************************************************)
(* trial.py: the list `screens` of single_trial, indexed 0..7 as in the    *)
(* code: (duration, render callback's result, trigger label).              *)
(***************************************************************************)
screens(ch) ==
    [i \in 0..LastPhase |->
        CASE i = 0 -> [duration |-> InitialDuration, render |-> DivisionByZero, frame |-> None]
          [] i = 1 -> [duration |-> ch.ITI, render |-> draw_fixation_dot, frame |-> None]
          [] i = 2 -> [duration |-> ch.durations[1],
                       render |-> create_stimuli_frame(ch.stimuli_colours[1], ch.positions[1]),
                       frame |-> "stimulus_onset_1"]
          [] i = 3 -> [duration |-> FixationDuration, render |-> draw_fixation_dot, frame |-> None]
          [] i = 4 -> [duration |-> ch.durations[2],
                       render |-> create_stimuli_frame(ch.stimuli_colours[2], ch.positions[2]),
                       frame |-> "stimulus_onset_2"]
          [] i = 5 -> [duration |-> FixationDuration, render |-> draw_fixation_dot, frame |-> None]
          [] i = 6 -> [duration |-> CueDuration, render |-> create_cue_frame(ch.target_number),
                       frame |-> "cue_onset"]
          [] OTHER -> [duration |-> PreResponseDuration, render |-> draw_fixation_dot, frame |-> None]]


(***************************************************************************)
(* eyetracker.py is not part of the sources: get_trigger is a pure         *)
(* function of its arguments; a message is identified by its label.        *)
(***************************************************************************)
get_trigger(frame) == frame

(***************************************************************************)
(* State.                                                                  *)
(*   entry       the function called from outside                          *)
(*   pc          position inside the call                                  *)
(*   ch          the trial characteristics passed as keyword arguments     *)
(*   index       loop variable of the timeline loop                        *)
(*   backbuf     what was drawn since the last window.flip()               *)
(*   log         engine events in order: poll, flip, render, wait          *)
(*   sent        messages received by eyetracker.tracker, in order         *)
(*   now, start  time() and the local `start` of do_while_showing          *)
(*   keys        pending 'q' key event of settings["keyboard"]             *)
(*   mouse       [moved, left]: mouse moved since the last check, left     *)
(*               button currently down                                     *)
(*   premature   prematurely_clicked[0] as getPressed(getTime=True) gives  *)
(*   iters       iterations of the current polling loop                    *)
(*   selected    selected_colour of get_colour_response                    *)
(*   exc         the exception that ended the call, or "none"              *)
(*   report      the value returned                                        *)
(*   n_trials .. state of create_trial_list (SpecBlock)                    *)
(*   diagnostics what the trial has recorded about missed deadlines        *)
(*   fn          the pure function under call, or "none"                   *)
(*   arg         its arguments                                             *)
(*   result      what the call produced: a record whose field exc is       *)
(*               "pending" before the call, "none" after a return and the  *)
(*               exception's name after a raise                            *)
(*   spc ..      state of main's session loop (SpecSession): its position, *)
(*               current_block_type, block_nr, trial_i (the place in the   *)
(*               block's trial list), current_trial, data, finished_early, *)
(*               file (the rows of the session's data file),               *)
(*               trials_completed (<<v>> once stored in participantinfo),  *)
(*               appended (every row ever appended to data) and raised     *)
(*               (the exception that ended the loop, or "none")            *)
(***************************************************************************)
VARIABLES entry, pc, block_type, testing, eyetracker, ch, index, backbuf,
          log, sent, now, start, keys, mouse, premature, iters, selected,
          exc, report,
          n_trials, trials, shuffle_i, bpc,
          fn, arg, result,
          diagnostics,
          spc, current_block_type, block_nr, trial_i, current_trial, data,
          finished_early, file, trials_completed, appended, raised

trialVars == <<entry, pc, block_type, testing, eyetracker, ch, index, backbuf,
               log, sent, now, start, keys, mouse, premature, iters, selected,
               exc, report, diagnostics>>

blockVars == <<n_trials, trials, shuffle_i, bpc>>

callVars == <<fn, arg, result>>

sessVars == <<spc, current_block_type, block_nr, trial_i, current_trial, data,
              finished_early, file, trials_completed, appended, raised>>

vars == <<trialVars, blockVars, callVars, sessVars>>

Event(ev, phase, content, at) == [ev |-> ev, phase |-> phase, content |-> content, at |-> at]

NoReport == [kind |-> "none"]

\* the designs create_trial_list can produce
Designs == {"left", "right"} \X {"short", "long"} \X {1, 2}

\* random.sample(settings["colours"], 2): two distinct palette entries, in order
Samples == {s \in (1..NColours) \X (1..NColours) : s[1] # s[2]}

RenderTimes == {FastRender, SlowRender}

\* prematurely_clicked[0]: 0.0 when the left button was not clicked before the
\* response window, else the time of the click (ms)
PrematureTimes == {0, PrematureClick}

\* raise: the call ends with the exception
Raise(e) == pc' = "raised" /\ exc' = e

InitTrial ==
    /\ entry \in {"single_trial", "get_colour_response", "get_duration_response"}
    /\ block_type \in {"colour", "duration"}
    /\ entry = "get_colour_response" => block_type = "colour"
    /\ entry = "get_duration_response" => block_type = "duration"
    /\ testing \in BOOLEAN
    /\ eyetracker \in {None, Sink}
    /\ \E d \in Designs, short \in {ShortMin, ShortMax}, long \in {LongMax},
          iti \in {ITIMin},
          sample \in Samples :
            ch = generate_trial_characteristics(d, short, long, sample, iti)
    /\ pc = IF entry = "single_trial" THEN "start" ELSE "respond"
    /\ index = 0
    /\ backbuf = Blank
    /\ log = << >>
    /\ sent = << >>
    /\ now = 0
    /\ start = 0
    /\ keys = {}
    /\ mouse = [moved |-> FALSE, left |-> FALSE]
    /\ premature = 0
    /\ iters = 0
    /\ selected = 0
    /\ exc = "none"
    /\ report = NoReport
    /\ diagnostics = << >>

(***************************************************************************)
(* response.py: check_quit.  keyboard.getKeys("q") returns the pending 'q' *)
(* events and removes them from the buffer.                                *)
(***************************************************************************)
\* a check for another key than the one pressed to quit
QuitPressed_WrongKey(k) == "escape" \in k

QuitPressed(k) == "q" \in k

\* what keyboard.getKeys("q") returned, as logged with a poll
KeysFound(k) == IF "q" \in k THEN <<"q", 0, "none">> ELSE Blank

(***************************************************************************)
(* psychopy.core.wait(secs): returns once secs have elapsed, at once when  *)
(* secs <= 0.  t is the time of the call.                                  *)
(***************************************************************************)
wait(secs, t) == IF secs > 0 THEN t + secs ELSE t

(***************************************************************************)
(* trial.py: single_trial, the timeline (lines 111-163).                   *)
(***************************************************************************)
\* the guard without the test of `testing`
SendsTrigger_IgnoresTesting(tst, frame) == frame # None

\* line 148: a trigger is sent for screens[index] if not testing and frame
SendsTrigger(tst, frame) == ~tst /\ frame # None

\* the duration of the screen being drawn instead of the one being shown
WaitingTime_NextScreen(i) == screens(ch)[i + 1].duration

\* line 146: the duration handed to do_while_showing is that of screens[index]
WaitingTime(i) == screens(ch)[i].duration

\* the callback of the screen being shown instead of the next one
NextScreen_Current(i) == i

\* line 158: the callback handed to do_while_showing is that of screens[index + 1]
NextScreen(i) == i + 1

\* a loop over screens[:-2]
LoopContinues_ShortSlice(i) == i < LastPhase - 1

\* line 146: the loop runs over screens[:-1]
LoopContinues(i) == i < LastPhase

\* line 112: the initial fixation dot is drawn before the loop
SingleTrialStart ==
    /\ pc = "start"
    /\ backbuf' = draw_fixation_dot
    /\ index' = 0
    /\ pc' = "trigger"
    /\ UNCHANGED <<diagnostics, entry, block_type, testing, eyetracker, ch, log, sent, now, start,
                   keys, mouse, premature, iters, selected, exc, report>>

\* lines 147-152: eyetracker.tracker.send_message; eyetracker None has no
\* attribute tracker
SendTrigger ==
    /\ pc = "trigger"
    /\ LET frame == screens(ch)[index].frame IN
        IF SendsTrigger(testing, frame)
        THEN IF eyetracker = None
             THEN Raise("AttributeError") /\ UNCHANGED sent
             ELSE sent' = Append(sent, get_trigger(frame)) /\ pc' = "check_quit" /\ UNCHANGED exc
        ELSE pc' = "check_quit" /\ UNCHANGED <<sent, exc>>
    /\ UNCHANGED <<diagnostics, entry, block_type, testing, eyetracker, ch, index, backbuf, log, now,
                   start, keys, mouse, premature, iters, selected, report>>

\* lines 154-155: check_quit(settings["keyboard"])
CheckQuit ==
    /\ pc = "check_quit"
    /\ log' = Append(log, Event("poll", index, KeysFound(keys), now))
    /\ keys' = keys \ {"q"}
    /\ IF QuitPressed(keys)
       THEN Raise("KeyboardInterrupt")
       ELSE pc' = "flip" /\ UNCHANGED exc
    /\ UNCHANGED <<diagnostics, entry, block_type, testing, eyetracker, ch, index, backbuf, sent, now,
                   start, mouse, premature, iters, selected, report>>

\* do_while_showing, lines 86-87: window.flip() shows the back buffer and
\* clears it; start = time()
Flip ==
    /\ pc = "flip"
    /\ log' = Append(log, Event("flip", index, backbuf, now))
    /\ backbuf' = Blank
    /\ start' = now
    /\ pc' = "render"
    /\ UNCHANGED <<diagnostics, entry, block_type, testing, eyetracker, ch, index, sent, now, keys,
                   mouse, premature, iters, selected, exc, report>>

\* do_while_showing, line 88: something_to_do(), which takes r ms
Render ==
    /\ pc = "render"
    /\ \E r \in RenderTimes :
        LET next == NextScreen(index)
            drawn == screens(ch)[next].render
        IN  /\ log' = Append(log, Event("render", next, drawn, now))
            /\ IF drawn = DivisionByZero
               THEN Raise("ZeroDivisionError") /\ UNCHANGED <<backbuf, now>>
               ELSE /\ backbuf' = drawn
                    /\ now' = now + r
                    /\ pc' = "wait"
                    /\ UNCHANGED exc
    /\ UNCHANGED <<diagnostics, entry, block_type, testing, eyetracker, ch, index, sent, start, keys,
                   mouse, premature, iters, selected, report>>

\* do_while_showing, line 89: wait(waiting_time - (time() - start)); then the
\* next iteration of the loop of line 146
Wait ==
    /\ pc = "wait"
    /\ now' = wait(WaitingTime(index) - (now - start), now)
    /\ log' = Append(log, Event("wait", index, Blank, now'))
    /\ index' = index + 1
    /\ pc' = IF LoopContinues(index + 1) THEN "trigger" ELSE "final_flip"
    /\ UNCHANGED <<diagnostics, entry, block_type, testing, eyetracker, ch, backbuf, sent, start, keys,
                   mouse, premature, iters, selected, exc, report>>

\* lines 160-163: settings["window"].flip(); wait(screens[-1][0])
FinalFlip ==
    /\ pc = "final_flip"
    /\ now' = wait(screens(ch)[LastPhase].duration, now)
    /\ log' = log \o << Event("flip", LastPhase, backbuf, now),
                        Event("wait", LastPhase, Blank, now') >>
    /\ backbuf' = Blank
    /\ pc' = "respond"
    /\ UNCHANGED <<diagnostics, entry, block_type, testing, eyetracker, ch, index, sent, start, keys,
                   mouse, premature, iters, selected, exc, report>>

(***************************************************************************)
(* The call of the response evaluator.  Python binds positional arguments  *)
(* to parameters in order and raises TypeError when a parameter without a  *)
(* default is left unbound.                                                *)
(***************************************************************************)
\* positional arguments passed by practice.py to the two evaluators
PracticeColourArgs == 11
PracticeDurationArgs == 9

BindsArguments(nargs, nparams) == nargs >= nparams

ArgsPassed(caller, bt) ==
    IF caller = "single_trial"
    THEN (IF bt = "colour" THEN ColourResponseArgs ELSE DurationResponseArgs)
    ELSE (IF bt = "colour" THEN PracticeColourArgs ELSE PracticeDurationArgs)

ParamsRequired(bt) == IF bt = "colour" THEN ColourResponseParams ELSE DurationResponseParams

\* the flag read the wrong way round
EvaluatorSendsTrigger_Rehearsal(tst, tracker) == tst /\ tracker # None

\* the guard of the response_onset / response_offset triggers in both evaluators
EvaluatorSendsTrigger(tst, tracker) == ~tst /\ tracker # None

\* trial.py lines 165-188 (and practice.py lines 58-70, 135-145)
CallResponse ==
    /\ pc = "respond"
    /\ IF BindsArguments(ArgsPassed(entry, block_type), ParamsRequired(block_type))
       THEN pc' = (IF block_type = "colour" THEN "c_enter" ELSE "d_enter") /\ UNCHANGED exc
       ELSE Raise("TypeError")
    /\ UNCHANGED <<diagnostics, entry, block_type, testing, eyetracker, ch, index, backbuf, log, sent,
                   now, start, keys, mouse, premature, iters, selected, report>>

(***************************************************************************)
(* response.py: get_colour_response.                                       *)
(***************************************************************************)
\* lines 108-126
ColourEnter ==
    /\ pc = "c_enter"
    /\ keys' = keys \ {"q"}
    /\ IF QuitPressed(keys)
       THEN Raise("KeyboardInterrupt") /\ UNCHANGED premature
       ELSE /\ \E p \in PrematureTimes : premature' = p
            /\ pc' = "c_wait_move"
            /\ UNCHANGED exc
    /\ iters' = 0
    /\ UNCHANGED <<diagnostics, entry, block_type, testing, eyetracker, ch, index, backbuf, log, sent,
                   now, start, mouse, selected, report>>

\* lines 128-140: one iteration of `while not mouse.mouseMoved()`
ColourWaitMove ==
    /\ pc = "c_wait_move"
    /\ ~mouse.moved
    /\ iters < MaxPolls
    /\ iters' = iters + 1
    /\ UNCHANGED <<diagnostics, entry, pc, block_type, testing, eyetracker, ch, index, backbuf, log,
                   sent, now, start, keys, mouse, premature, selected, exc, report>>

\* lines 142-153: the loop ends, response_onset
ColourResponseStarted ==
    /\ pc = "c_wait_move"
    /\ mouse.moved
    /\ sent' = IF EvaluatorSendsTrigger(testing, eyetracker)
               THEN Append(sent, get_trigger("response_onset")) ELSE sent
    /\ iters' = 0
    /\ pc' = "c_select"
    /\ UNCHANGED <<diagnostics, entry, block_type, testing, eyetracker, ch, index, backbuf, log, now,
                   start, keys, mouse, premature, selected, exc, report>>

\* lines 155-186: one iteration of `while not selected_colour`; c is the
\* colour under the mouse
ColourSelect ==
    /\ pc = "c_select"
    /\ mouse.left \/ QuitPressed(keys) \/ iters < MaxPolls
    /\ keys' = keys \ {"q"}
    /\ IF QuitPressed(keys)
       THEN Raise("KeyboardInterrupt") /\ UNCHANGED <<selected, iters>>
       ELSE IF mouse.left
            THEN /\ \E c \in 1..NColours : selected' = c
                 /\ pc' = "c_done"
                 /\ UNCHANGED <<exc, iters>>
            ELSE /\ iters' = iters + 1
                 /\ UNCHANGED <<pc, exc, selected>>
    /\ UNCHANGED <<diagnostics, entry, block_type, testing, eyetracker, ch, index, backbuf, log, sent,
                   now, start, mouse, premature, report>>

\* the key named whether or not a press was recorded
PrematureFields_KeyAlways(p) ==
    [ premature_pressed |-> p # 0,
      premature_key     |-> "left_mouse_click",
      premature_timing  |-> IF p # 0 THEN p ELSE -1 ]

\* response.py lines 206-210 and 298-302; p is prematurely_clicked[0] in ms, a
\* null timing is -1
PrematureFields(p) ==
    [ premature_pressed |-> p # 0,
      premature_key     |-> IF p # 0 THEN "left_mouse_click" ELSE None,
      premature_timing  |-> IF p # 0 THEN p ELSE -1 ]

\* lines 188-214: response_offset, the record returned
ColourReturn ==
    /\ pc = "c_done"
    /\ sent' = IF EvaluatorSendsTrigger(testing, eyetracker)
               THEN Append(sent, get_trigger("response_offset")) ELSE sent
    /\ report' = [kind |-> "colour", premature |-> PrematureFields(premature),
                  selected_colour |-> selected]
    /\ pc' = IF entry = "single_trial" THEN "feedback" ELSE "returned"
    /\ UNCHANGED <<diagnostics, entry, block_type, testing, eyetracker, ch, index, backbuf, log, now,
                   start, keys, mouse, premature, iters, selected, exc>>

(***************************************************************************)
(* response.py: get_duration_response.                                     *)
(***************************************************************************)
\* lines 240-255
DurationEnter ==
    /\ pc = "d_enter"
    /\ keys' = keys \ {"q"}
    /\ IF QuitPressed(keys)
       THEN Raise("KeyboardInterrupt") /\ UNCHANGED premature
       ELSE /\ \E p \in PrematureTimes : premature' = p
            /\ pc' = "d_wait_click"
            /\ UNCHANGED exc
    /\ iters' = 0
    /\ UNCHANGED <<diagnostics, entry, block_type, testing, eyetracker, ch, index, backbuf, log, sent,
                   now, start, mouse, selected, report>>

\* lines 257-260: one iteration of `while not clicked`
DurationWaitClick ==
    /\ pc = "d_wait_click"
    /\ ~mouse.left
    /\ iters < MaxPolls
    /\ iters' = iters + 1
    /\ UNCHANGED <<diagnostics, entry, pc, block_type, testing, eyetracker, ch, index, backbuf, log,
                   sent, now, start, keys, mouse, premature, selected, exc, report>>

\* lines 261-271: the loop ends, response_onset
DurationResponseStarted ==
    /\ pc = "d_wait_click"
    /\ mouse.left
    /\ sent' = IF EvaluatorSendsTrigger(testing, eyetracker)
               THEN Append(sent, get_trigger("response_onset")) ELSE sent
    /\ iters' = 0
    /\ pc' = "d_hold"
    /\ UNCHANGED <<diagnostics, entry, block_type, testing, eyetracker, ch, index, backbuf, log, now,
                   start, keys, mouse, premature, selected, exc, report>>

\* lines 273-276: one iteration of `while mouse.getPressed()[0]`
DurationHold ==
    /\ pc = "d_hold"
    /\ mouse.left
    /\ iters < MaxPolls
    /\ iters' = iters + 1
    /\ UNCHANGED <<diagnostics, entry, pc, block_type, testing, eyetracker, ch, index, backbuf, log,
                   sent, now, start, keys, mouse, premature, selected, exc, report>>

\* lines 278-304: the button is released, response_offset, the record returned
DurationReturn ==
    /\ pc = "d_hold"
    /\ ~mouse.left
    /\ sent' = IF EvaluatorSendsTrigger(testing, eyetracker)
               THEN Append(sent, get_trigger("response_offset")) ELSE sent
    /\ report' = [kind |-> "duration", premature |-> PrematureFields(premature)]
    /\ pc' = IF entry = "single_trial" THEN "feedback" ELSE "returned"
    /\ UNCHANGED <<diagnostics, entry, block_type, testing, eyetracker, ch, index, backbuf, log, now,
                   start, keys, mouse, premature, iters, selected, exc>>

(***************************************************************************)
(* trial.py: single_trial, lines 190-218: feedback and the report.  No     *)
(* call of single_trial gets here (CallResponse raises), so the step is    *)
(* not part of Next.                                                       *)
(***************************************************************************)
ShowFeedback ==
    /\ pc = "feedback"
    /\ IF ~testing
       THEN IF eyetracker = None
            THEN Raise("AttributeError") /\ UNCHANGED <<sent, log, now, report, backbuf>>
            ELSE /\ sent' = Append(sent, get_trigger("feedback_onset"))
                 /\ log' = Append(log, Event("flip", LastPhase + 1, <<"feedback", 0, "none">>, now))
                 /\ now' = now + FeedbackDuration
                 /\ report' = [kind |-> "trial", condition_code |-> get_trigger("stimulus_onset_1"),
                               response |-> report]
                 /\ pc' = "returned"
                 /\ UNCHANGED <<exc, backbuf>>
       ELSE /\ log' = Append(log, Event("flip", LastPhase + 1, <<"feedback", 0, "none">>, now))
            /\ now' = now + FeedbackDuration
            /\ report' = [kind |-> "trial", condition_code |-> get_trigger("stimulus_onset_1"),
                          response |-> report]
            /\ pc' = "returned"
            /\ UNCHANGED <<exc, backbuf, sent>>
    /\ UNCHANGED <<diagnostics, entry, block_type, testing, eyetracker, ch, index, start, keys, mouse,
                   premature, iters, selected>>

(***************************************************************************)
(* The participant and the experimenter.                                   *)
(***************************************************************************)
Running == pc \notin {"returned", "raised"}

PressQ ==
    /\ Running
    /\ "q" \notin keys
    /\ keys' = keys \cup {"q"}
    /\ UNCHANGED <<diagnostics, entry, pc, block_type, testing, eyetracker, ch, index, backbuf, log,
                   sent, now, start, mouse, premature, iters, selected, exc, report>>

MoveMouse ==
    /\ pc \in {"c_wait_move"}
    /\ ~mouse.moved
    /\ mouse' = [mouse EXCEPT !.moved = TRUE]
    /\ UNCHANGED <<diagnostics, entry, pc, block_type, testing, eyetracker, ch, index, backbuf, log,
                   sent, now, start, keys, premature, iters, selected, exc, report>>

ButtonDown ==
    /\ pc \in {"c_select", "d_wait_click"}
    /\ ~mouse.left
    /\ mouse' = [mouse EXCEPT !.left = TRUE]
    /\ UNCHANGED <<diagnostics, entry, pc, block_type, testing, eyetracker, ch, index, backbuf, log,
                   sent, now, start, keys, premature, iters, selected, exc, report>>

ButtonUp ==
    /\ pc \in {"c_select", "d_hold"}
    /\ mouse.left
    /\ mouse' = [mouse EXCEPT !.left = FALSE]
    /\ UNCHANGED <<diagnostics, entry, pc, block_type, testing, eyetracker, ch, index, backbuf, log,
                   sent, now, start, keys, premature, iters, selected, exc, report>>

(***************************************************************************)
(* block.py: create_trial_list.                                            *)
(***************************************************************************)
\* k * pattern of Python: the pattern k times, the empty list for k <= 0
RECURSIVE Repeat(_, _)
Repeat(k, pattern) == IF k <= 0 THEN << >> ELSE pattern \o Repeat(k - 1, pattern)

Min3(a, b, c) == IF a <= b /\ a <= c THEN a ELSE IF b <= c THEN b ELSE c

\* zip stops at the shortest of its arguments
zip(a, b, c) == [k \in 1..Min3(Len(a), Len(b), Len(c)) |-> <<a[k], b[k], c[k]>>]

\* a check of divisibility by 4
ValidTrialCount_Mod4(n) == n % 4 = 0

\* line 16
ValidTrialCount(n) == n % 8 = 0

\* the pair repeated n // 4 times
target_item_Quarter(n) == Repeat(n \div 4, <<1, 2>>)

\* line 22
target_item(n) == Repeat(n \div 2, <<1, 2>>)

\* one short and three long per four trials
target_duration_Unbalanced(n) == Repeat(n \div 4, <<"short", "long", "long", "long">>)

\* line 25
target_duration(n) == Repeat(n \div 4, <<"short", "short", "long", "long">>)

\* sides alternating in pairs, in step with the duration categories
target_position_Aligned(n) ==
    Repeat(n \div 2, <<"left", "left", "right", "right", "left", "left", "right", "right">>)

\* line 28
target_position(n) ==
    Repeat(n \div 2, <<"left", "left", "left", "left", "right", "right", "right", "right">>)

\* line 31
zipped_trials(n) == zip(target_position(n), target_duration(n), target_item(n))

\* the draws of randbelow(i + 1) the model follows
ShuffleDraws(i) == {0, i}

\* x[i] = x[j] alone: the entry at i is lost
Swap_Overwrite(x, i, j) == [x EXCEPT ![i + 1] = x[j + 1]]

\* x[i], x[j] = x[j], x[i] on 0-based indices
Swap(x, i, j) == [x EXCEPT ![i + 1] = x[j + 1], ![j + 1] = x[i + 1]]

\* lines 15-31: the check, the three lists, the zip; random.shuffle starts at
\* the last index
CreateTrialList ==
    /\ bpc = "call"
    /\ IF ValidTrialCount(n_trials)
       THEN /\ trials' = zipped_trials(n_trials)
            /\ shuffle_i' = Len(trials') - 1
            /\ bpc' = IF Len(trials') > 1 THEN "shuffle" ELSE "returned"
       ELSE /\ bpc' = "raised"
            /\ UNCHANGED <<trials, shuffle_i>>
    /\ UNCHANGED <<n_trials, trialVars, callVars, sessVars>>

\* line 32: one iteration of random.shuffle, for i in reversed(range(1, len(x)));
\* line 34 after the last one
ShuffleStep ==
    /\ bpc = "shuffle"
    /\ \E j \in ShuffleDraws(shuffle_i) : trials' = Swap(trials, shuffle_i, j)
    /\ shuffle_i' = shuffle_i - 1
    /\ bpc' = IF shuffle_i - 1 >= 1 THEN "shuffle" ELSE "returned"
    /\ UNCHANGED <<n_trials, trialVars, callVars, sessVars>>

(***************************************************************************)
(* Specifications.                                                         *)
(***************************************************************************)
BlockIdle ==
    /\ n_trials = 0
    /\ trials = << >>
    /\ shuffle_i = 0
    /\ bpc = "idle"

TrialIdle ==
    /\ entry = "none"
    /\ pc = "returned"
    /\ block_type = "colour"
    /\ testing = TRUE
    /\ eyetracker = None
    /\ ch = [exc |-> "none"]
    /\ index = 0
    /\ backbuf = Blank
    /\ log = << >>
    /\ sent = << >>
    /\ now = 0
    /\ start = 0
    /\ keys = {}
    /\ mouse = [moved |-> FALSE, left |-> FALSE]
    /\ premature = 0
    /\ iters = 0
    /\ selected = 0
    /\ exc = "none"
    /\ report = NoReport
    /\ diagnostics = << >>

Pending == [exc |-> "pending"]

CallIdle ==
    /\ fn = "none"
    /\ arg = [none |-> TRUE]
    /\ result = Pending

SessIdle ==
    /\ spc = "idle"
    /\ current_block_type = "colour"
    /\ block_nr = -1
    /\ trial_i = 0
    /\ current_trial = 0
    /\ data = << >>
    /\ finished_early = TRUE
    /\ file = << >>
    /\ trials_completed = << >>
    /\ appended = << >>
    /\ raised = "none"

Init == InitTrial /\ BlockIdle /\ CallIdle /\ SessIdle

Next ==
    \/ (SingleTrialStart /\ UNCHANGED <<blockVars, callVars, sessVars>>)
    \/ (SendTrigger /\ UNCHANGED <<blockVars, callVars, sessVars>>)
    \/ (CheckQuit /\ UNCHANGED <<blockVars, callVars, sessVars>>)
    \/ (Flip /\ UNCHANGED <<blockVars, callVars, sessVars>>)
    \/ (Render /\ UNCHANGED <<blockVars, callVars, sessVars>>)
    \/ (Wait /\ UNCHANGED <<blockVars, callVars, sessVars>>)
    \/ (FinalFlip /\ UNCHANGED <<blockVars, callVars, sessVars>>)
    \/ (CallResponse /\ UNCHANGED <<blockVars, callVars, sessVars>>)
    \/ (ColourEnter /\ UNCHANGED <<blockVars, callVars, sessVars>>)
    \/ (ColourWaitMove /\ UNCHANGED <<blockVars, callVars, sessVars>>)
    \/ (ColourResponseStarted /\ UNCHANGED <<blockVars, callVars, sessVars>>)
    \/ (ColourSelect /\ UNCHANGED <<blockVars, callVars, sessVars>>)
    \/ (ColourReturn /\ UNCHANGED <<blockVars, callVars, sessVars>>)
    \/ (DurationEnter /\ UNCHANGED <<blockVars, callVars, sessVars>>)
    \/ (DurationWaitClick /\ UNCHANGED <<blockVars, callVars, sessVars>>)
    \/ (DurationResponseStarted /\ UNCHANGED <<blockVars, callVars, sessVars>>)
    \/ (DurationHold /\ UNCHANGED <<blockVars, callVars, sessVars>>)
    \/ (DurationReturn /\ UNCHANGED <<blockVars, callVars, sessVars>>)
    \/ (PressQ /\ UNCHANGED <<blockVars, callVars, sessVars>>)
    \/ (MoveMouse /\ UNCHANGED <<blockVars, callVars, sessVars>>)
    \/ (ButtonDown /\ UNCHANGED <<blockVars, callVars, sessVars>>)
    \/ (ButtonUp /\ UNCHANGED <<blockVars, callVars, sessVars>>)

Spec == Init /\ [][Next]_vars

InitBlock ==
    /\ TrialIdle
    /\ CallIdle
    /\ SessIdle
    /\ n_trials \in 0..MaxTrials
    /\ trials = << >>
    /\ shuffle_i = 0
    /\ bpc = "call"

NextBlock == CreateTrialList \/ ShuffleStep

SpecBlock == InitBlock /\ [][NextBlock]_vars

(***************************************************************************)
(* Vocabulary of the claims.                                               *)
(***************************************************************************)
IsTrial == entry = "single_trial"

Ended == pc \in {"returned", "raised"}

Aborted == pc = "raised" /\ exc = "KeyboardInterrupt"

\* the timeline has run to its end: the state right after the last wait
TimelineDone == IsTrial /\ pc = "respond"

EventsOf(kind) == SelectSeq(log, LAMBDA e : e.ev = kind)

Flips == EventsOf("flip")

CountOf(kind, phase) == Cardinality({p \in 1..Len(log) : log[p].ev = kind /\ log[p].phase = phase})

\* the 8 phases of the specification, by index: what each shows and for how long
PhaseContent(i) ==
    CASE i = 2 -> <<"stimulus", ch.stimuli_colours[1], ch.positions[1]>>
      [] i = 4 -> <<"stimulus", ch.stimuli_colours[2], ch.positions[2]>>
      [] i = 6 -> <<"cue", ch.target_number, "none">>
      [] OTHER -> <<"fixation", 0, "none">>

PhaseDuration(i) ==
    CASE i = 0 -> 0
      [] i = 1 -> ch.ITI
      [] i = 2 -> ch.durations[1]
      [] i = 3 -> 750
      [] i = 4 -> ch.durations[2]
      [] i = 5 -> 750
      [] i = 6 -> 250
      [] OTHER -> 1000

RECURSIVE SumDurations(_)
SumDurations(i) == IF i < 0 THEN 0 ELSE PhaseDuration(i) + SumDurations(i - 1)

\* position in the log of the flip of phase i (0 if there is none)
FlipPos(i) ==
    IF \E p \in 1..Len(log) : log[p].ev = "flip" /\ log[p].phase = i
    THEN CHOOSE p \in 1..Len(log) : log[p].ev = "flip" /\ log[p].phase = i
    ELSE 0

SixMessages == << "stimulus_onset_1", "stimulus_onset_2", "cue_onset",
                  "response_onset", "response_offset", "feedback_onset" >>

(***************************************************************************)
(* C1.  A call of single_trial that ends without an abort after its        *)
(* timeline has run has returned one report: condition_code merged with    *)
(* the record of the evaluator matching block_type.  (Stated as the claim  *)
(* states it; the code violates it: the evaluator call raises TypeError.)  *)
(***************************************************************************)
C1_ReportFromMatchingEvaluator ==
    (IsTrial /\ Ended /\ ~Aborted /\ Len(Flips) >= LastPhase + 1)
        => /\ pc = "returned"
           /\ report.kind = "trial"
           /\ report.response.kind = block_type

(***************************************************************************)
(* C2.  The flips of a trial are the phases 0, 1, ..., 7 in this order,    *)
(* each at most once, each showing the content of its own phase; every     *)
(* timed wait is that of the phase on screen and ends after that phase's   *)
(* own duration or, when the render overran it, when the render ended;     *)
(* when the timeline is done all 8 phases were flipped exactly once.       *)
(***************************************************************************)
C2_PhasesOnceInOrder ==
    IsTrial =>
        /\ Len(Flips) <= LastPhase + 1
        /\ \A k \in 1..Len(Flips) :
              /\ Flips[k].phase = k - 1
              /\ Flips[k].content = PhaseContent(k - 1)
        /\ \A p \in 1..Len(log) :
              log[p].ev = "wait" =>
                 LET i == log[p].phase IN
                   /\ FlipPos(i) # 0 /\ FlipPos(i) < p
                   /\ \A q \in (FlipPos(i) + 1)..(p - 1) : log[q].ev # "flip"
                   /\ \/ log[p].at - log[FlipPos(i)].at = PhaseDuration(i)
                      \/ /\ log[p].at - log[FlipPos(i)].at > PhaseDuration(i)
                         /\ log[p].at - log[FlipPos(i)].at \in RenderTimes
        /\ TimelineDone =>
              /\ Len(Flips) = LastPhase + 1
              /\ \A i \in 0..LastPhase : CountOf("flip", i) = 1 /\ CountOf("wait", i) = 1

\* the timeline is done and a render overran the budget of a phase with a
\* positive duration
C2_Witness ==
    /\ TimelineDone
    /\ \E p \in 1..Len(log) :
          /\ log[p].ev = "wait"
          /\ log[p].phase >= 1
          /\ log[p].at - log[FlipPos(log[p].phase)].at > PhaseDuration(log[p].phase)

(***************************************************************************)
(* C3.  Between the flip of a phase and the next flip at least the phase's *)
(* duration elapses; when the timeline is done, at least the last phase's  *)
(* duration has elapsed since its flip and at least the sum of all         *)
(* durations since the first flip; when a trial is aborted, the phase on   *)
(* screen has had at least its duration, and no quit check ever directly   *)
(* follows a flip or a render (it follows a wait, or nothing).             *)
(***************************************************************************)
C3_PhaseHeldForDuration ==
    IsTrial =>
        /\ \A k \in 1..(Len(Flips) - 1) :
              Flips[k + 1].at - Flips[k].at >= PhaseDuration(Flips[k].phase)
        /\ TimelineDone =>
              /\ now - Flips[Len(Flips)].at >= PhaseDuration(LastPhase)
              /\ now - Flips[1].at >= SumDurations(LastPhase)
        /\ (Aborted /\ Len(Flips) >= 1) =>
              now - Flips[Len(Flips)].at >= PhaseDuration(Flips[Len(Flips)].phase)
        /\ \A p \in 1..Len(log) :
              log[p].ev = "poll" => (p = 1 \/ log[p - 1].ev = "wait")

\* a trial aborted at the end of a stimulus or later phase
C3_Witness ==
    /\ IsTrial
    /\ Aborted
    /\ Len(Flips) >= 3
    /\ now - Flips[Len(Flips)].at >= PhaseDuration(Flips[Len(Flips)].phase)

(***************************************************************************)
(* C4.  Every render event is that of phase i + 1 directly after the flip  *)
(* of phase i (i in 0..6) and directly before the wait of phase i; no      *)
(* phase is rendered twice; phase 0 is never rendered and its callback     *)
(* never raises; nothing is rendered after the flip of the last phase;     *)
(* when the timeline is done each of the phases 1..7 was rendered once.    *)
(***************************************************************************)
C4_ComputeAhead ==
    IsTrial =>
        /\ exc # "ZeroDivisionError"
        /\ CountOf("render", 0) = 0
        /\ \A i \in 1..LastPhase : CountOf("render", i) <= 1
        /\ \A p \in 1..Len(log) :
              /\ log[p].ev = "render" =>
                    /\ log[p].phase \in 1..LastPhase
                    /\ p > 1
                    /\ log[p - 1].ev = "flip"
                    /\ log[p - 1].phase = log[p].phase - 1
                    /\ p < Len(log) => (log[p + 1].ev = "wait" /\ log[p + 1].phase = log[p].phase - 1)
              /\ (log[p].ev = "wait" /\ log[p].phase < LastPhase) =>
                    (log[p - 1].ev = "render" /\ log[p - 1].phase = log[p].phase + 1)
              /\ (log[p].ev = "flip" /\ log[p].phase = LastPhase) =>
                    \A q \in (p + 1)..Len(log) : log[q].ev = "wait"
              /\ (log[p].ev = "flip" /\ log[p].phase >= 1) =>
                    CountOf("render", log[p].phase) = 1
        /\ TimelineDone => \A i \in 1..LastPhase : CountOf("render", i) = 1

\* the timeline is done: seven renders, the last phase flipped and held
C4_Witness ==
    /\ TimelineDone
    /\ Len(EventsOf("render")) = LastPhase
    /\ log[Len(log)].ev = "wait"
    /\ log[Len(log)].phase = LastPhase

(***************************************************************************)
(* C5, as stated.  The quit signal is polled directly before each of the   *)
(* 8 flips of the timeline; a poll that finds 'q' ends the trial with      *)
(* KeyboardInterrupt and nothing follows it.                               *)
(***************************************************************************)
PollThatFoundQuitIsLast ==
    \A p \in 1..Len(log) :
        (log[p].ev = "poll" /\ log[p].content # Blank) =>
            /\ p = Len(log)
            /\ pc = "raised"
            /\ exc = "KeyboardInterrupt"
            /\ report = NoReport

C5_PolledBeforeEveryPhase ==
    IsTrial =>
        /\ \A p \in 1..Len(log) :
              log[p].ev = "flip" =>
                 (p > 1 /\ log[p - 1].ev = "poll" /\ log[p - 1].phase = log[p].phase)
        /\ PollThatFoundQuitIsLast

(***************************************************************************)
(* C5, amended.  The quit signal is polled once directly before each of    *)
(* the first 7 flips (phases 0..6) and not before the flip of the last     *)
(* phase, which directly follows the wait of phase 6; a poll that finds    *)
(* 'q' ends the trial with KeyboardInterrupt, is the last event of the     *)
(* trial (no flip, no render, no evaluator, no report after it), and an    *)
(* aborted trial ended at such a poll.                                     *)
(***************************************************************************)
C5_PolledBeforeFirstSevenPhases ==
    IsTrial =>
        /\ \A p \in 1..Len(log) :
              /\ (log[p].ev = "flip" /\ log[p].phase < LastPhase) =>
                    (p > 1 /\ log[p - 1].ev = "poll" /\ log[p - 1].phase = log[p].phase)
              /\ (log[p].ev = "flip" /\ log[p].phase = LastPhase) =>
                    (p > 1 /\ log[p - 1].ev = "wait" /\ log[p - 1].phase = LastPhase - 1)
              /\ log[p].ev = "poll" => log[p].phase < LastPhase
        /\ \A i \in 0..LastPhase : CountOf("poll", i) <= 1
        /\ TimelineDone => Len(EventsOf("poll")) = LastPhase
        /\ PollThatFoundQuitIsLast
        /\ Aborted => (Len(log) >= 1 /\ log[Len(log)].ev = "poll" /\ log[Len(log)].content # Blank)

\* a trial aborted at the last poll of the timeline, before the cue is shown
C5_Witness ==
    /\ IsTrial
    /\ Aborted
    /\ Len(Flips) = LastPhase - 1
    /\ log[Len(log)].ev = "poll"

(***************************************************************************)
(* C6.  In rehearsal mode (testing) no message is ever sent to the sink,   *)
(* in single_trial and in either evaluator.                                *)
(***************************************************************************)
C6_RehearsalSendsNothing == testing => sent = << >>

\* a rehearsal trial with a sink, after the three labelled phases
C6_Witness ==
    /\ TimelineDone
    /\ testing
    /\ eyetracker = Sink
    /\ CountOf("flip", 6) = 1

(***************************************************************************)
(* C7.  A non-rehearsal trial with a sink that ends without an abort has   *)
(* sent exactly the six messages, once each, in order.  (Stated as the     *)
(* claim states it; the code violates it: see C1.)                         *)
(***************************************************************************)
C7_SixMessagesInOrder ==
    (IsTrial /\ ~testing /\ eyetracker = Sink /\ Ended /\ ~Aborted) => sent = SixMessages

(***************************************************************************)
(* Vocabulary of the claims about create_trial_list.                       *)
(***************************************************************************)
BlockReturned == bpc = "returned"

\* the list exists: zipped, being shuffled or returned
BlockListed == bpc \in {"shuffle", "returned"}

CountField(f, v) == Cardinality({k \in 1..Len(trials) : trials[k][f] = v})

(***************************************************************************)
(* C8.  create_trial_list raises and returns no list when n mod 8 # 0,     *)
(* and does not raise when n mod 8 = 0.                                    *)
(***************************************************************************)
C8_FailsIffNotDivisibleBy8 ==
    bpc # "call" =>
        /\ (n_trials % 8 # 0) => (bpc = "raised" /\ trials = << >>)
        /\ (n_trials % 8 = 0) => bpc # "raised"

\* a positive multiple of 4 that is no multiple of 8 was refused
C8_Witness == bpc = "raised" /\ n_trials = 12

(***************************************************************************)
(* C9.  For n divisible by 8 the list has exactly n designs, n/2 with      *)
(* target item 1 and n/2 with target item 2, in every order the shuffle    *)
(* passes through or returns.                                              *)
(***************************************************************************)
C9_HalfPerTargetItem ==
    BlockListed \/ BlockReturned =>
        /\ Len(trials) = n_trials
        /\ CountField(3, 1) = n_trials \div 2
        /\ CountField(3, 2) = n_trials \div 2

\* 16 designs returned in an order that is not the zipped one
C9_Witness ==
    /\ BlockReturned
    /\ n_trials = 16
    /\ trials # zipped_trials(16)
    /\ CountField(3, 1) = 8

(***************************************************************************)
(* C10, as stated.  For n divisible by 8 the returned list has exactly n/4 *)
(* designs of each duration category.                                      *)
(***************************************************************************)
C10_QuarterPerDurationCategory ==
    BlockReturned =>
        /\ CountField(2, "short") = n_trials \div 4
        /\ CountField(2, "long") = n_trials \div 4

(***************************************************************************)
(* C10, amended.  For n divisible by 8 the returned list has exactly n/2   *)
(* designs of each of the two duration categories.                         *)
(***************************************************************************)
C10_HalfPerDurationCategory ==
    BlockListed \/ BlockReturned =>
        /\ CountField(2, "short") = n_trials \div 2
        /\ CountField(2, "long") = n_trials \div 2
        /\ CountField(2, "short") + CountField(2, "long") = Len(trials)

\* 8 designs returned: 4 short and 4 long
C10_Witness ==
    /\ BlockReturned
    /\ n_trials = 8
    /\ CountField(2, "short") = 4
    /\ CountField(2, "long") = 4

\* designs of the list with the given position and duration category
CountPair(position, cat) ==
    Cardinality({k \in 1..Len(trials) : trials[k][1] = position /\ trials[k][2] = cat})

(***************************************************************************)
(* C11, as stated.  For n divisible by 8, in the returned list each        *)
(* duration category appears exactly n/8 times at each position.           *)
(***************************************************************************)
C11_EighthPerCategoryAtPosition ==
    BlockReturned =>
        \A position \in {"left", "right"} : \A cat \in {"short", "long"} :
            CountPair(position, cat) = n_trials \div 8

(***************************************************************************)
(* C11, amended.  For n divisible by 8, in the list (in every order the    *)
(* shuffle passes through or returns) each duration category appears       *)
(* exactly n/4 times at each position.                                     *)
(***************************************************************************)
C11_QuarterPerCategoryAtPosition ==
    BlockListed \/ BlockReturned =>
        \A position \in {"left", "right"} : \A cat \in {"short", "long"} :
            CountPair(position, cat) = n_trials \div 4

\* 16 designs returned in a shuffled order: 4 long ones on the right
C11_Witness ==
    /\ BlockReturned
    /\ n_trials = 16
    /\ trials # zipped_trials(16)
    /\ CountPair("right", "long") = 4

(***************************************************************************)
(* generate_trial_characteristics as a call on its own: the design is any  *)
(* triple, in or out of the domain, and the random draws are the ends of   *)
(* the ranges.                                                             *)
(***************************************************************************)
AnyDesigns == {"left", "right", "middle"} \X {"short", "long", "medium"} \X {0, 1, 2, 3}

InitChars ==
    /\ TrialIdle
    /\ BlockIdle
    /\ SessIdle
    /\ fn = "generate_trial_characteristics"
    /\ \E d \in AnyDesigns, short \in {ShortMin, ShortMax}, long \in {LongMin, LongMax},
          iti \in {ITIMin, ITIMax}, sample \in Samples :
          arg = [conditions |-> d, short |-> short, long |-> long,
                 sample |-> sample, iti |-> iti]
    /\ result = Pending

\* trial.py lines 23-78
GenerateTrialCharacteristics ==
    /\ fn = "generate_trial_characteristics"
    /\ result.exc = "pending"
    /\ result' = generate_trial_characteristics(arg.conditions, arg.short, arg.long,
                                                arg.sample, arg.iti)
    /\ UNCHANGED <<fn, arg, trialVars, blockVars, sessVars>>

NextChars == GenerateTrialCharacteristics

SpecChars == InitChars /\ [][NextChars]_vars

\* the call of generate_trial_characteristics has ended
CharsCalled == fn = "generate_trial_characteristics" /\ result.exc # "pending"

\* ... and returned its dictionary
CharsReturned == CharsCalled /\ result.exc = "none"

(***************************************************************************)
(* C12.  For every design in {left,right} x {short,long} x {1,2} and every *)
(* random draw, generate_trial_characteristics returns, and duration_cats  *)
(* is one short and one long, and the two stimulus colours are distinct    *)
(* entries of the palette.                                                 *)
(***************************************************************************)
C12_ComplementaryCatsDistinctColours ==
    (CharsCalled /\ arg.conditions \in Designs) =>
        /\ result.exc = "none"
        /\ {result.duration_cats[1], result.duration_cats[2]} = {"short", "long"}
        /\ result.stimuli_colours[1] # result.stimuli_colours[2]
        /\ {result.stimuli_colours[1], result.stimuli_colours[2]} \subseteq 1..NColours

\* a long target on the right: the other item, listed first, is short
C12_Witness ==
    /\ CharsReturned
    /\ arg.conditions = <<"right", "long", 2>>
    /\ result.duration_cats = <<"short", "long">>
    /\ result.durations = <<ShortMin, LongMax>>

(***************************************************************************)
(* C13.  For every valid design the two positions are one left and one     *)
(* right, exactly one of the two items is at target_position, and it is    *)
(* the item of slot target_number.                                         *)
(***************************************************************************)
C13_OneItemAtTargetPosition ==
    (CharsCalled /\ arg.conditions \in Designs) =>
        /\ result.exc = "none"
        /\ {result.positions[1], result.positions[2]} = {"left", "right"}
        /\ Cardinality({k \in 1..2 : result.positions[k] = result.target_position}) = 1
        /\ result.target_position = arg.conditions[1]
        /\ result.target_number = arg.conditions[3]
        /\ result.positions[result.target_number] = result.target_position

\* the second item is the target, on the left: the first one is on the right
C13_Witness ==
    /\ CharsReturned
    /\ arg.conditions = <<"left", "short", 2>>
    /\ result.positions = <<"right", "left">>

(***************************************************************************)
(* C14.  generate_trial_characteristics ends in an error and returns no    *)
(* characteristics whenever the position is not left or right, and         *)
(* whenever the target item is not 1 or 2, the position being valid or     *)
(* not.                                                                    *)
(***************************************************************************)
C14_FailsOutOfDomain ==
    (CharsCalled /\ (arg.conditions[1] \notin {"left", "right"}
                     \/ arg.conditions[3] \notin {1, 2})) =>
        /\ result.exc # "none"
        /\ DOMAIN result = {"exc"}

\* a valid position and category with target item 3
C14_Witness ==
    /\ CharsCalled
    /\ arg.conditions = <<"left", "short", 3>>
    /\ result.exc = "UnboundLocalError"

(***************************************************************************)
(* response.py: evaluate_colour_response.  The palette settings["colours"] *)
(* is built outside the sources: it is the list of the wheel's hues, one   *)
(* per degree; a colour is its hue, 0..359.                                *)
(***************************************************************************)
WheelSize == 360

HalfWheel == 180

FullMarks == 100

colours == [k \in 1..WheelSize |-> k - 1]

Abs(x) == IF x < 0 THEN -x ELSE x

\* list.index: the 0-based place of the first entry equal to x
list_index(list, x) ==
    LET places == {k \in 1..Len(list) : list[k] = x}
    IN  (CHOOSE k \in places : \A j \in places : k <= j) - 1

\* round() of Python on the fraction p / q, q > 0: to the nearest integer,
\* a tie to the even one
round(p, q) ==
    LET f == p \div q
        r == p - f * q
    IN  IF 2 * r < q THEN f
        ELSE IF 2 * r > q THEN f + 1
        ELSE IF f % 2 = 0 THEN f ELSE f + 1

\* the distance without the wrap of lines 78-79
abs_rgb_distance_NoWrap(rgb_distance) == Abs(rgb_distance)

\* lines 78-81
abs_rgb_distance(rgb_distance) ==
    IF Abs(rgb_distance) > HalfWheel
    THEN WheelSize - Abs(rgb_distance)
    ELSE Abs(rgb_distance)

\* the difference of the two places as it is
rgb_distance_signed_Raw(rgb_distance) == rgb_distance

\* the wrap into the range open below and closed above
rgb_distance_signed_UpperClosed(rgb_distance) ==
    HalfWheel - ((HalfWheel - rgb_distance) % WheelSize)

\* line 83
rgb_distance_signed(rgb_distance) == ((rgb_distance + HalfWheel) % WheelSize) - HalfWheel

\* int() in place of round(): the fraction cut off
colour_performance_Truncated(distance) ==
    (FullMarks * HalfWheel - FullMarks * distance) \div HalfWheel

\* line 85: round(100 - abs_rgb_distance / 180 * 100); the float is within
\* 1e-13 of (18000 - 100 a) / 180, whose fraction is a multiple of 1/9 and so
\* never near a half
colour_performance(distance) ==
    round(FullMarks * HalfWheel - FullMarks * distance, HalfWheel)

\* lines 70-92
evaluate_colour_response(selected_colour, target_colour, palette) ==
    LET selected_colour_id == list_index(palette, selected_colour) + 1
        target_colour_id   == list_index(palette, target_colour) + 1
        rgb_distance       == selected_colour_id - target_colour_id
    IN  [ exc                 |-> "none",
          rgb_distance        |-> rgb_distance,
          abs_rgb_distance    |-> abs_rgb_distance(rgb_distance),
          rgb_distance_signed |-> rgb_distance_signed(rgb_distance),
          performance         |-> colour_performance(abs_rgb_distance(rgb_distance)) ]

\* the entries of the palette
Hues == {colours[k] : k \in 1..WheelSize}

InitColour ==
    /\ TrialIdle
    /\ BlockIdle
    /\ SessIdle
    /\ fn = "evaluate_colour_response"
    /\ \E s \in Hues, t \in Hues : arg = [selected_colour |-> s, target_colour |-> t]
    /\ result = Pending

\* response.py line 213
EvaluateColourResponse ==
    /\ fn = "evaluate_colour_response"
    /\ result.exc = "pending"
    /\ result' = evaluate_colour_response(arg.selected_colour, arg.target_colour, colours)
    /\ UNCHANGED <<fn, arg, trialVars, blockVars, sessVars>>

NextColour == EvaluateColourResponse

SpecColour == InitColour /\ [][NextColour]_vars

\* evaluate_colour_response has returned
ColourScored == fn = "evaluate_colour_response" /\ result.exc = "none"

\* the hue indices 1..360 of the two arguments
SelectedId == arg.selected_colour + 1

TargetId == arg.target_colour + 1

Min2(a, b) == IF a <= b THEN a ELSE b

(***************************************************************************)
(* C15.  For all selected and target hue indices s, t in 1..360,           *)
(* abs_rgb_distance is the shorter arc min(|s - t|, 360 - |s - t|): it is  *)
(* in 0..180, the same with the arguments exchanged, and 1 for (1, 360)    *)
(* and (360, 1).                                                           *)
(***************************************************************************)
C15_ShorterArc ==
    ColourScored =>
        /\ result.abs_rgb_distance =
               Min2(Abs(SelectedId - TargetId), WheelSize - Abs(SelectedId - TargetId))
        /\ result.abs_rgb_distance \in 0..HalfWheel
        /\ result.abs_rgb_distance =
               evaluate_colour_response(arg.target_colour, arg.selected_colour,
                                        colours).abs_rgb_distance
        /\ ({SelectedId, TargetId} = {1, WheelSize}) => result.abs_rgb_distance = 1

\* the first hue scored against the last one: across the seam of the wheel
C15_Witness ==
    /\ ColourScored
    /\ SelectedId = 1
    /\ TargetId = WheelSize
    /\ result.rgb_distance = 1 - WheelSize
    /\ result.abs_rgb_distance = 1

(***************************************************************************)
(* C16.  For all hue indices a, b in 1..360 with |a - b| # 180,            *)
(* rgb_distance_signed(a, b) = -rgb_distance_signed(b, a), and its         *)
(* absolute value is abs_rgb_distance.                                     *)
(***************************************************************************)
C16_SignedAntisymmetric ==
    (ColourScored /\ Abs(SelectedId - TargetId) # HalfWheel) =>
        /\ result.rgb_distance_signed =
               -evaluate_colour_response(arg.target_colour, arg.selected_colour,
                                         colours).rgb_distance_signed
        /\ Abs(result.rgb_distance_signed) = result.abs_rgb_distance

\* 10 against 300: 70 steps forward across the seam
C16_Witness ==
    /\ ColourScored
    /\ SelectedId = 10
    /\ TargetId = 300
    /\ result.rgb_distance_signed = 70

(***************************************************************************)
(* C17.  For all selected and target hue indices in 1..360 the colour      *)
(* performance is an integer in 0..100, is 100 exactly when selected and   *)
(* target are the same, and is 0 exactly when abs_rgb_distance is 180.     *)
(***************************************************************************)
C17_PerformanceRange ==
    ColourScored =>
        /\ result.performance \in 0..FullMarks
        /\ (result.performance = FullMarks) <=> (SelectedId = TargetId)
        /\ (result.performance = 0) <=> (result.abs_rgb_distance = HalfWheel)

\* one step short of the opposite hue still scores 1
C17_Witness ==
    /\ ColourScored
    /\ result.abs_rgb_distance = HalfWheel - 1
    /\ result.performance = 1

(***************************************************************************)
(* response.py: evaluate_duration_response.  target_duration is a whole    *)
(* number of milliseconds (a randint); response_duration is a measured     *)
(* float, response_time * 1000, modelled as a whole number of ticks,       *)
(* TicksPerMs of them to the millisecond.                                  *)
(***************************************************************************)
TicksPerMs == 4

\* how far from the target, in milliseconds, the held durations range
MaxHeldOffset == 3

\* str() of an integer, as f"{...}" formats it: <<sign, digits>>
str(n) == <<IF n < 0 THEN "-" ELSE "", Abs(n)>>

\* f"{sign}{performance}": the prefix in front of the formatted integer
format(sign, n) == <<sign \o str(n)[1], str(n)[2]>>

\* lines 217-226; target_ms is target_duration, response_ticks is
\* response_duration in ticks
evaluate_duration_response(target_ms, response_ticks) ==
    LET duration_diff     == response_ticks - target_ms * TicksPerMs
        duration_diff_abs == Abs(duration_diff)
        performance       == round(duration_diff, TicksPerMs)
        sign              == IF duration_diff > 0 THEN "+" ELSE ""
    IN  [ exc               |-> "none",
          duration_offset   |-> round(duration_diff, TicksPerMs),
          duration_diff_abs |-> round(duration_diff_abs, TicksPerMs),
          performance       |-> format(sign, performance) ]

InitDuration ==
    /\ TrialIdle
    /\ BlockIdle
    /\ SessIdle
    /\ fn = "evaluate_duration_response"
    /\ \E target \in {ShortMin, ShortMax, LongMin, LongMax},
          off \in (-MaxHeldOffset * TicksPerMs)..(MaxHeldOffset * TicksPerMs) :
          arg = [target_duration |-> target,
                 response_ticks  |-> target * TicksPerMs + off]
    /\ result = Pending

\* response.py line 303
EvaluateDurationResponse ==
    /\ fn = "evaluate_duration_response"
    /\ result.exc = "pending"
    /\ result' = evaluate_duration_response(arg.target_duration, arg.response_ticks)
    /\ UNCHANGED <<fn, arg, trialVars, blockVars, sessVars>>

NextDuration == EvaluateDurationResponse

SpecDuration == InitDuration /\ [][NextDuration]_vars

\* evaluate_duration_response has returned
DurationScored == fn = "evaluate_duration_response" /\ result.exc = "none"

(***************************************************************************)
(* C18.  For every target duration and every held duration, a measured     *)
(* and generally non-integer number of milliseconds, duration_offset is    *)
(* round(held - target), duration_diff_abs is its absolute value, and the  *)
(* performance string is the offset with "+" in front exactly when the     *)
(* offset is positive, "-" exactly when it is negative, and "0" with no    *)
(* sign when it is zero.  (Stated as the claim states it; the code         *)
(* violates it.)                                                           *)
(***************************************************************************)
C18_SignFollowsOffset ==
    DurationScored =>
        /\ result.duration_offset =
               round(arg.response_ticks - arg.target_duration * TicksPerMs, TicksPerMs)
        /\ result.duration_diff_abs = Abs(result.duration_offset)
        /\ result.performance[2] = Abs(result.duration_offset)
        /\ (result.performance[1] = "+") <=> (result.duration_offset > 0)
        /\ (result.performance[1] = "-") <=> (result.duration_offset < 0)
        /\ (result.duration_offset = 0) => result.performance = <<"", 0>>

(***************************************************************************)
(* Vocabulary of the claims about what single_trial shows in the two       *)
(* stimulus slots and about the labelled phases.                           *)
(***************************************************************************)
\* the phase of the timeline that shows the stimulus of a temporal slot
SlotPhase(slot) == 2 * slot

\* what the flip of that phase put on the display
ShownInSlot(slot) == log[FlipPos(SlotPhase(slot))].content

\* how long single_trial asks that phase to be held
RequestedFor(slot) == screens(ch)[SlotPhase(slot)].duration

\* the range of the category the target is not in
NonTargetDurations ==
    IF ch.target_duration_cat = "short" THEN LongMin..LongMax ELSE ShortMin..ShortMax

\* the labels of the timeline, and the phase each one announces
TimelineLabels == {"stimulus_onset_1", "stimulus_onset_2", "cue_onset"}

PhaseOfLabel(label) == CHOOSE i \in 0..LastPhase : screens(ch)[i].frame = label

(***************************************************************************)
(* C19.  For every design in {left,right} x {short,long} x {1,2} the       *)
(* stimulus shown in the slot the cue names (slot target_number) is at     *)
(* target_position, in target_colour, for target_duration; the other slot  *)
(* shows the distractor colour, at the opposite position, for the          *)
(* non-target duration.  (Stated as the claim states it; the code          *)
(* violates it.)                                                           *)
(***************************************************************************)
C19_CuedSlotShowsTarget ==
    TimelineDone =>
        LET cued  == ch.target_number
            other == OtherItem(ch.target_number)
        IN  /\ ShownInSlot(cued) = <<"stimulus", ch.target_colour, ch.target_position>>
            /\ RequestedFor(cued) = ch.target_duration
            /\ ShownInSlot(other) =
                   <<"stimulus", ch.distractor_colour, Other(ch.target_position)>>
            /\ RequestedFor(other) \in NonTargetDurations

(***************************************************************************)
(* C20.  Every trigger sent for a labelled phase of the timeline           *)
(* (stimulus_onset_1, stimulus_onset_2, cue_onset) is followed in the same *)
(* trial by the flip that shows that phase: a trial that has ended has     *)
(* sent no such trigger for a phase it never showed, a pending quit        *)
(* included.  (Stated as the claim states it; the code violates it.)       *)
(***************************************************************************)
C20_TriggeredPhaseIsShown ==
    (IsTrial /\ Ended) =>
        \A k \in 1..Len(sent) :
            sent[k] \in TimelineLabels => CountOf("flip", PhaseOfLabel(sent[k])) = 1

(***************************************************************************)
(* C21.  With no trigger sink (eyetracker is None) every point of a trial  *)
(* that emits a trigger does nothing and raises no error, whatever the     *)
(* testing flag: nothing is sent and no call ends in the error of sending  *)
(* to no sink.  (Stated as the claim states it; the code violates it.)     *)
(***************************************************************************)
C21_NoSinkNoError ==
    eyetracker = None => (sent = << >> /\ exc # "AttributeError")

\* the polling loops of the two evaluators
PollingLoops == {"c_wait_move", "c_select", "d_wait_click", "d_hold"}

(***************************************************************************)
(* C22.  In both evaluators the quit signal is checked at the top of every *)
(* polling iteration, while waiting for the response to start and while    *)
(* waiting for its commit: every step an evaluator takes in a polling loop *)
(* with a quit pending is the abort, whatever the participant does.        *)
(* (Stated as the claim states it; the code violates it.)                  *)
(***************************************************************************)
C22_QuitCheckedEveryIteration ==
    [][ (pc \in PollingLoops /\ QuitPressed(keys) /\ <<pc, iters>>' # <<pc, iters>>)
            => (pc' = "raised" /\ exc' = "KeyboardInterrupt") ]_vars

\* an evaluator called on its own, not in rehearsal, with a sink
EvaluatorWithSink ==
    /\ entry \in {"get_colour_response", "get_duration_response"}
    /\ ~testing
    /\ eyetracker = Sink

(***************************************************************************)
(* C23.  In both evaluators running non-rehearsal with a sink:             *)
(* response_onset is sent exactly once, after the response has started     *)
(* (mouse moved; left button down) and before its commit (left click;      *)
(* button release); response_offset is sent exactly once, after the commit *)
(* and before the return; and the evaluator returns only with a committed  *)
(* response.                                                               *)
(***************************************************************************)
C23_OnsetAndOffsetAroundCommit ==
    EvaluatorWithSink =>
        /\ pc \in {"respond", "c_enter", "d_enter", "c_wait_move", "d_wait_click"}
              => (sent = << >> /\ selected = 0)
        /\ pc = "c_select" => (sent = <<"response_onset">> /\ mouse.moved /\ selected = 0)
        /\ pc = "d_hold" => sent = <<"response_onset">>
        /\ pc = "c_done" => (sent = <<"response_onset">> /\ mouse.left /\ selected # 0)
        /\ pc = "returned" =>
              /\ sent = <<"response_onset", "response_offset">>
              /\ block_type = "colour" =>
                    (mouse.moved /\ mouse.left /\ report.selected_colour \in 1..NColours)
              /\ block_type = "duration" => ~mouse.left
        /\ pc = "raised" => (exc = "KeyboardInterrupt" /\ Len(sent) <= 1 /\ report = NoReport)

\* a duration response pressed, held for a poll and released
C23_Witness ==
    /\ EvaluatorWithSink
    /\ entry = "get_duration_response"
    /\ pc = "returned"
    /\ iters >= 1
    /\ sent = <<"response_onset", "response_offset">>

(***************************************************************************)
(* C24.  For all selected and target hue indices in 1..360,                *)
(* rgb_distance_signed is in -180..179, and a raw distance of exactly -180 *)
(* and one of exactly +180 are both reported as -180.                      *)
(***************************************************************************)
C24_SignedRangeHalfOpen ==
    ColourScored =>
        /\ result.rgb_distance = SelectedId - TargetId
        /\ result.rgb_distance_signed \in (-HalfWheel)..(HalfWheel - 1)
        /\ Abs(result.rgb_distance) = HalfWheel => result.rgb_distance_signed = -HalfWheel

\* the selected hue half a wheel ahead of the target: reported as -180
C24_Witness ==
    /\ ColourScored
    /\ result.rgb_distance = HalfWheel
    /\ result.rgb_distance_signed = -HalfWheel

\* the range the durations of a category are drawn from
DurationRange(cat) == IF cat = "short" THEN ShortMin..ShortMax ELSE LongMin..LongMax

(***************************************************************************)
(* C25.  For every valid design and every random draw each presented       *)
(* duration is in the range of its own category (200..800 for short,       *)
(* 1200..1800 for long); target_duration is in the range of                *)
(* target_duration_cat and the non-target duration in the range of the     *)
(* other category.                                                         *)
(***************************************************************************)
C25_DurationsInCategoryRange ==
    (CharsCalled /\ arg.conditions \in Designs) =>
        /\ result.exc = "none"
        /\ \A i \in 1..2 : result.durations[i] \in DurationRange(result.duration_cats[i])
        /\ result.target_duration_cat = arg.conditions[2]
        /\ result.target_duration \in DurationRange(result.target_duration_cat)
        /\ \E i \in 1..2 :
              /\ result.durations[i] = result.target_duration
              /\ result.duration_cats[i] = result.target_duration_cat
              /\ result.durations[3 - i] \in DurationRange(OtherCat(result.target_duration_cat))

\* a long target on the left at the low end of its range, the other item
\* at the high end of the short range
C25_Witness ==
    /\ CharsReturned
    /\ arg.conditions = <<"left", "long", 1>>
    /\ result.durations = <<LongMin, ShortMax>>
    /\ result.duration_cats = <<"long", "short">>

\* designs of the list equal to d
CountDesign(d) == Cardinality({k \in 1..Len(trials) : trials[k] = d})

(***************************************************************************)
(* C26.  For n divisible by 8 the list holds each of the 8 combinations of *)
(* position, duration category and target item exactly n/8 times, as       *)
(* zipped and in every order the shuffle passes through or returns.        *)
(***************************************************************************)
C26_FullFactorial ==
    BlockListed \/ BlockReturned =>
        /\ Len(trials) = n_trials
        /\ \A d \in Designs : CountDesign(d) = n_trials \div 8

\* 16 designs returned in a shuffled order, two of them (right, long, 1)
C26_Witness ==
    /\ BlockReturned
    /\ n_trials = 16
    /\ trials # zipped_trials(16)
    /\ CountDesign(<<"right", "long", 1>>) = 2

\* the waits of the log after which more time than the phase's duration had
\* passed since its flip: rendering the next phase took longer (phase 0, of
\* duration 0, is left out)
Overruns ==
    {p \in 1..Len(log) :
        /\ log[p].ev = "wait"
        /\ log[p].phase \in 1..(LastPhase - 1)
        /\ log[p].at - log[FlipPos(log[p].phase)].at > screens(ch)[log[p].phase].duration}

(***************************************************************************)
(* C27.  When rendering the next phase takes longer than the current       *)
(* phase's duration the trial goes on to commit the next phase at once,    *)
(* without waiting, and the missed deadline is recorded as a diagnostic:   *)
(* as many diagnostics as misses.  (Stated as the claim states it; the     *)
(* code violates it.)                                                      *)
(***************************************************************************)
C27_MissedDeadlineRecorded ==
    IsTrial =>
        /\ \A p \in Overruns : log[p].at - log[FlipPos(log[p].phase)].at \in RenderTimes
        /\ Len(diagnostics) = Cardinality(Overruns)

\* an evaluator has returned its record
EvaluatorReturned ==
    /\ entry \in {"get_colour_response", "get_duration_response"}
    /\ pc = "returned"

(***************************************************************************)
(* C28.  In every record an evaluator returns, premature_pressed is true   *)
(* exactly when premature_key is not null and exactly when                 *)
(* premature_timing is not null; a premature press recorded at time 0 is   *)
(* reported as none at all: flag false, key and timing null.               *)
(***************************************************************************)
C28_PrematureFieldsConsistent ==
    EvaluatorReturned =>
        LET f == report.premature
        IN  /\ f.premature_pressed <=> (f.premature_key # None)
            /\ f.premature_pressed <=> (f.premature_timing # -1)
            /\ f.premature_pressed <=> (premature # 0)
            /\ premature = 0 =>
                  (~f.premature_pressed /\ f.premature_key = None /\ f.premature_timing = -1)
            /\ premature # 0 =>
                  (f.premature_key = "left_mouse_click" /\ f.premature_timing = premature)

\* a colour record with a premature click
C28_Witness ==
    /\ EvaluatorReturned
    /\ report.kind = "colour"
    /\ premature = PrematureClick
    /\ report.premature.premature_pressed
    /\ report.premature.premature_timing = PrematureClick

(***************************************************************************)
(* main.py: the session loop, lines 93-244.  The numbers of blocks and of  *)
(* trials per block are scaled down.  single_trial is what main sees of    *)
(* it: a call that returns a report or raises; a break between blocks      *)
(* returns or raises (the eyetracker's calibration, an interrupt).         *)
(* create_trial_list and generate_trial_characteristics do not raise on    *)
(* what main hands them.                                                   *)
(***************************************************************************)
N_BLOCKS == 3

TRIALS_PER_BLOCK == 3

\* what can end single_trial other than its return
TrialExceptions == {"KeyboardInterrupt", "TypeError"}

\* what can end a break other than its return
BreakExceptions == {"KeyboardInterrupt", "RuntimeError"}

\* DataFrame(rows).to_csv(mode="w") replaces the file's rows,
\* mode="a" adds to them
to_csv(rows, old, mode) == IF mode = "w" THEN rows ELSE old \o rows

\* lines 155-168 and 223-236: the mode by block_nr
WriteMode(nr) == IF nr = 0 THEN "w" ELSE "a"

InitSession ==
    /\ TrialIdle
    /\ BlockIdle
    /\ CallIdle
    /\ spc = "for_block"
    /\ current_block_type \in {"colour", "duration"}
    /\ block_nr = -1
    /\ trial_i = 0
    /\ current_trial = 0
    /\ data = << >>
    /\ finished_early = TRUE
    /\ file = << >>
    /\ trials_completed = << >>
    /\ appended = << >>
    /\ raised = "none"

\* lines 102-108: the next block, or line 197 after the last one
ForBlock ==
    /\ spc = "for_block"
    /\ IF block_nr + 1 < N_BLOCKS
       THEN /\ block_nr' = block_nr + 1
            /\ trial_i' = 0
            /\ spc' = "for_trial"
            /\ UNCHANGED finished_early
       ELSE /\ finished_early' = FALSE
            /\ spc' = "finally"
            /\ UNCHANGED <<block_nr, trial_i>>
    /\ UNCHANGED <<current_block_type, current_trial, data, file, trials_completed,
                   appended, raised, trialVars, blockVars, callVars>>

\* lines 111-117: the next trial of the block, or the end of the list
ForTrial ==
    /\ spc = "for_trial"
    /\ IF trial_i < TRIALS_PER_BLOCK
       THEN /\ trial_i' = trial_i + 1
            /\ current_trial' = current_trial + 1
            /\ spc' = "single_trial"
       ELSE /\ spc' = "write_block"
            /\ UNCHANGED <<trial_i, current_trial>>
    /\ UNCHANGED <<current_block_type, block_nr, data, finished_early, file,
                   trials_completed, appended, raised, trialVars, blockVars, callVars>>

\* lines 120-149: single_trial returns its report, the row is appended
SingleTrialReturns ==
    /\ spc = "single_trial"
    /\ LET row == [trial_number |-> current_trial, block |-> block_nr + 1]
       IN  /\ data' = Append(data, row)
           /\ appended' = Append(appended, row)
    /\ spc' = "for_trial"
    /\ UNCHANGED <<current_block_type, block_nr, trial_i, current_trial, finished_early,
                   file, trials_completed, raised, trialVars, blockVars, callVars>>

\* lines 120-127: single_trial raises; lines 199-205
SingleTrialRaises ==
    /\ spc = "single_trial"
    /\ \E e \in TrialExceptions : raised' = e
    /\ spc' = "finally"
    /\ UNCHANGED <<current_block_type, block_nr, trial_i, current_trial, data,
                   finished_early, file, trials_completed, appended, trialVars,
                   blockVars, callVars>>

\* lines 151-169 and the choice of lines 174, 186: the block's rows go to the
\* file, data is cleared, a break follows unless this was the last block
WriteBlock ==
    /\ spc = "write_block"
    /\ file' = to_csv(data, file, WriteMode(block_nr))
    /\ data' = << >>
    /\ spc' = IF block_nr + 1 = N_BLOCKS \div 2 THEN "long_break"
              ELSE IF block_nr + 1 < N_BLOCKS THEN "block_break"
              ELSE "for_block"
    /\ UNCHANGED <<current_block_type, block_nr, trial_i, current_trial, finished_early,
                   trials_completed, appended, raised, trialVars, blockVars, callVars>>

\* lines 175-195 (block.py lines 37-95): the break ends, after any number of
\* recalibrations
BreakReturns ==
    /\ spc \in {"long_break", "block_break"}
    /\ spc' = "for_block"
    /\ UNCHANGED <<current_block_type, block_nr, trial_i, current_trial, data,
                   finished_early, file, trials_completed, appended, raised, trialVars,
                   blockVars, callVars>>

\* the break raises; lines 199-205
BreakRaises ==
    /\ spc \in {"long_break", "block_break"}
    /\ \E e \in BreakExceptions : raised' = e
    /\ spc' = "finally"
    /\ UNCHANGED <<current_block_type, block_nr, trial_i, current_trial, data,
                   finished_early, file, trials_completed, appended, trialVars,
                   blockVars, callVars>>

\* lines 205-244: trials_completed is stored, and after an early end the rows
\* still in data are written
Finally ==
    /\ spc = "finally"
    /\ trials_completed' = <<current_trial - 1>>
    /\ file' = IF finished_early THEN to_csv(data, file, WriteMode(block_nr)) ELSE file
    /\ spc' = "done"
    /\ UNCHANGED <<current_block_type, block_nr, trial_i, current_trial, data,
                   finished_early, appended, raised, trialVars, blockVars, callVars>>

NextSession ==
    \/ ForBlock
    \/ ForTrial
    \/ SingleTrialReturns
    \/ SingleTrialRaises
    \/ WriteBlock
    \/ BreakReturns
    \/ BreakRaises
    \/ Finally

SpecSession == InitSession /\ [][NextSession]_vars

\* the session has ended: the finally block has run
SessionEnded == spc = "done"

TicksPerDegree == 2

\* the draws of random.randint(0, 360) the model follows
OffsetDraws == {0, 1, HalfWheel, WheelSize - 1, WheelSize}

\* int() of Python on the fraction p / q, q > 0: the fraction cut off,
\* towards zero
int(p, q) == IF p >= 0 THEN p \div q ELSE -((-p) \div q)

\* list[i] of Python, i 0-based: a negative i counts from the end
getitem(list, i) ==
    IF i >= Len(list) \/ i < -Len(list) THEN [exc |-> "IndexError"]
    ELSE [exc |-> "none", item |-> IF i < 0 THEN list[Len(list) + i + 1] ELSE list[i + 1]]

\* lines 37-48; mouse_angle is degrees(arctan2(mouse_y, mouse_x)) in ticks
get_colour(mouse_angle, offset, palette) ==
    LET turn         == WheelSize * TicksPerDegree
        angle        == (mouse_angle + turn) % turn
        colour_angle == angle - offset * TicksPerDegree
        wrapped      == IF colour_angle > turn THEN colour_angle - turn ELSE colour_angle
        got          == getitem(palette, int(wrapped, TicksPerDegree))
    IN  IF got.exc # "none"
        THEN [exc |-> got.exc]
        ELSE [exc |-> "none", current_colour |-> got.item, angle |-> angle]

\* stimuli.py lines 43-71 and 104-113: wedge i spans the degrees i..i+1 and is
\* drawn turned by offset; the wedge that is under the angle (in ticks)
WedgeUnder(angle, offset) ==
    CHOOSE i \in 0..(WheelSize - 1) :
        (angle - (i + offset) * TicksPerDegree) % (WheelSize * TicksPerDegree)
            < TicksPerDegree

\* stimuli.py line 67: wedge i is filled with colours[i]
WedgeColour(i) == getitem(colours, i).item

InitWheel ==
    /\ TrialIdle
    /\ BlockIdle
    /\ SessIdle
    /\ fn = "get_colour"
    /\ \E a \in (1 - HalfWheel * TicksPerDegree)..(HalfWheel * TicksPerDegree),
          o \in OffsetDraws :
          arg = [mouse_angle |-> a, offset |-> o]
    /\ result = Pending

\* response.py line 53
GetColour ==
    /\ fn = "get_colour"
    /\ result.exc = "pending"
    /\ result' = get_colour(arg.mouse_angle, arg.offset, colours)
    /\ UNCHANGED <<fn, arg, trialVars, blockVars, sessVars>>

NextWheel == GetColour

SpecWheel == InitWheel /\ [][NextWheel]_vars

\* get_colour has ended
WheelCalled == fn = "get_colour" /\ result.exc # "pending"

(***************************************************************************)
(* C31.  For every mouse angle in [0, 360) and every wheel offset in       *)
(* 0..360, get_colour indexes the palette inside its bounds and returns    *)
(* the colour of the wedge draw_colour_wheel draws under the mouse for     *)
(* that offset: the palette entry of index floor((angle - offset) mod      *)
(* 360), also when angle - offset is negative and no integer.  (Stated as  *)
(* the claim states it; the code violates it.)                             *)
(***************************************************************************)
C31_ColourOfWedgeUnderMouse ==
    WheelCalled =>
        /\ result.exc = "none"
        /\ result.angle \in 0..(WheelSize * TicksPerDegree - 1)
        /\ result.current_colour = WedgeColour(WedgeUnder(result.angle, arg.offset))
        /\ WedgeUnder(result.angle, arg.offset) =
               ((result.angle - arg.offset * TicksPerDegree)
                    % (WheelSize * TicksPerDegree)) \div TicksPerDegree

=============================================================================
